---- MODULE Spec2Model ----
(***************************************************************************)
(* Delivery tracker: the order rows, the partner rows and the handlers of  *)
(* server/routes.ts (request-style endpoints and socket events) over the   *)
(* storage layer of server/storage.ts.  Every `await` of a handler is a    *)
(* point where other handlers may run, so a handler is one action per      *)
(* storage call.                                                           *)
(***************************************************************************)
EXTENDS Integers, Sequences, FiniteSets, TLC

\* ------------------------------------------------------------------ bounds
MaxOrders == 1
MaxClock == 2
MaxInFlight == 1
MaxRacers == 2
MaxConns == 2
MaxSamples == 1
MaxStored == 2
MaxPosts == 2

\* --------------------------------------------------------------- constants
\* SQL NULL / JS null of a nullable column, and JS undefined of a property
\* that was never set; `null === undefined` is false.
Null == 0
Undefined == -1

\* storage.assignDeliveryPartner: "+ 30" minutes, Date in milliseconds.
EstimateMinutes == 30
MsPerMinute == 60000

Statuses == {"pending", "assigned", "picked_up", "in_transit", "delivered", "cancelled"}

\* ------------------------------------------------------- registered accounts
\* Rows of users, vendors and delivery_partners written by /api/auth/register.
\* Account 6 registered with role delivery and no partnerData, account 7 with
\* role vendor and no vendorData: they own no profile row.  Account 8 is a
\* vendor account whose is_active column is false.
UserIds == 1..7
InactiveIds == {8}

users ==
  [u \in UserIds \cup InactiveIds |->
     [role |-> CASE u \in {1, 2, 7, 8} -> "vendor"
                 [] u \in {3, 4, 6} -> "delivery"
                 [] OTHER -> "customer",
      isActive |-> u \in UserIds]]

VendorIds == {11, 12}
vendors == (11 :> [userId |-> 1]) @@ (12 :> [userId |-> 2])

PartnerIds == {21, 22}
deliveryPartners == (21 :> [userId |-> 3]) @@ (22 :> [userId |-> 4])

\* An id that names no row.
NoSuchId == 99

\* What a caller presents instead of a token that verifies: nothing, or a
\* string jwt.verify throws on (malformed, expired, wrong signature).  Any
\* other token value is the userId of a token that verifies.
Missing == 97
Forged == 98

\* A token of account 4 signed with expiresIn that runs out at TokenExpiry:
\* jwt.verify accepts it before that millisecond and throws from then on.
ShortLived == 96
TokenExpiry == 2

\* decoded.userId of a token that verifies.
Decoded(token) == IF token = ShortLived THEN 4 ELSE token

\* ---------------------------------------------------------------- state
VARIABLES
  now,        \* the clock read by Date.now() / new Date(), in milliseconds
  isActive,   \* column users.is_active, per account id
  orders,     \* table orders: sequence of rows, the serial id is the index
  isOnline,   \* column delivery_partners.is_online, per partner id
  http,       \* request-style handlers suspended at an await
  res,        \* the HTTP response sent by the step just taken (or NoRes)
  conns,      \* socket connections: the account bound at admission, or Null
  rooms,      \* socket.io rooms each connection has joined
  sock,       \* socket event handlers suspended at an await
  emits,      \* the socket messages emitted by the step just taken
  done,       \* the socket event whose handler returned in the step just taken
  position,   \* delivery_partners.current_latitude/longitude/last_location_update
  locationUpdates  \* table location_updates: sequence of rows

dbVars == <<orders, isOnline, position, locationUpdates>>
connVars == <<conns, rooms, sock>>
locVars == <<position, locationUpdates>>
vars == <<now, isActive, orders, isOnline, http, res, conns, rooms, sock, emits, done,
          position, locationUpdates>>

\* ------------------------------------------------------------- storage.ts
getVendorByUserId(uid) ==
  IF \E v \in VendorIds : vendors[v].userId = uid
    THEN CHOOSE v \in VendorIds : vendors[v].userId = uid
    ELSE Undefined

getDeliveryPartnerByUserId(uid) ==
  IF \E p \in PartnerIds : deliveryPartners[p].userId = uid
    THEN CHOOSE p \in PartnerIds : deliveryPartners[p].userId = uid
    ELSE Undefined

OrderExists(id) == id \in DOMAIN orders

\* UPDATE orders SET status, [actualDeliveryTime] WHERE id = orderId
updateOrderStatus(orderId, status) ==
  [orders EXCEPT ![orderId] =
     [@ EXCEPT !.status = status,
               !.actualDeliveryTime =
                  IF status = "delivered" THEN now ELSE @]]

\* The UPDATE without estimatedDeliveryTime in its SET list.
assignDeliveryPartner_KeepsEstimate(orderId, partnerId) ==
  [orders EXCEPT ![orderId] =
     [@ EXCEPT !.deliveryPartnerId = partnerId, !.status = "assigned"]]

\* UPDATE orders SET deliveryPartnerId, status, estimatedDeliveryTime
\* WHERE id = orderId
assignDeliveryPartner(orderId, partnerId) ==
  [orders EXCEPT ![orderId] =
     [@ EXCEPT !.deliveryPartnerId = partnerId,
               !.status = "assigned",
               !.estimatedDeliveryTime = now + EstimateMinutes * MsPerMinute]]

\* ------------------------------------------------------------- routes.ts
\* C18 mutant: admission looks the account up and ignores is_active.
Admitted_IgnoresActive(token) ==
  token \notin {Missing, Forged} /\ token \in DOMAIN users

\* The checks shared by authenticateToken and the io.use middleware: a token
\* is present, jwt.verify accepts it, its account exists and is active.
Admitted(token) ==
  /\ token \notin {Missing, Forged}
  /\ token = ShortLived => now < TokenExpiry
  /\ Decoded(token) \in DOMAIN users
  /\ isActive[Decoded(token)]

\* The HTTP status authenticateToken answers with when it does not call
\* next(): 401 without a token or a usable account, 403 when jwt.verify throws.
Rejection(token) ==
  IF token = Forged \/ (token = ShortLived /\ now >= TokenExpiry)
    THEN 403 ELSE 401

\* authenticateToken: req.user with the profile id of the account's role.
AuthContext(uid) ==
  [id |-> uid,
   role |-> users[uid].role,
   vendorId |-> IF users[uid].role = "vendor"
                  THEN getVendorByUserId(uid) ELSE Undefined,
   deliveryPartnerId |-> IF users[uid].role = "delivery"
                           THEN getDeliveryPartnerByUserId(uid) ELSE Undefined]

\* C7 mutant: the permission check compares the role and not the vendor id.
canUpdate_RoleOnly(user, order) ==
  \/ user.role = "vendor"
  \/ user.role = "delivery" /\ order.deliveryPartnerId = user.deliveryPartnerId

\* "Check permissions" of the status handlers.
canUpdate(user, order) ==
  \/ user.role = "vendor" /\ order.vendorId = user.vendorId
  \/ user.role = "delivery" /\ order.deliveryPartnerId = user.deliveryPartnerId

\* C5 mutant: the availability check forgets the online flag.
PartnerAvailable_IgnoresOnline(partnerId) == partnerId \in PartnerIds

\* `!partner || !partner.isOnline` of the assign handler.
PartnerAvailable(partnerId) ==
  partnerId \in PartnerIds /\ isOnline[partnerId]

Req(kind, uid, orderId, status, partnerId, flag) ==
  [kind |-> kind, uid |-> uid, orderId |-> orderId, status |-> status,
   partnerId |-> partnerId, flag |-> flag, latitude |-> Null, longitude |-> Null]

\* The request of POST /api/location/update, made by partner `partnerId`.
LocationReq(uid, partnerId, latitude, longitude, orderId) ==
  [Req("location", uid, orderId, "", partnerId, FALSE)
     EXCEPT !.latitude = latitude, !.longitude = longitude]

\* The response of a handler: its endpoint, the order it names, the HTTP status.
NoRes == [kind |-> "none", orderId |-> Null, code |-> 0]
Respond(req, code) == [kind |-> req.kind, orderId |-> req.orderId, code |-> code]

\* A handler suspended at an await: its request, where it resumes, and the
\* status of the order row it read into its local `order`.
Suspended(req, pc, seen) == [req |-> req, pc |-> pc, seen |-> seen]

\* ------------------------------------------------------------ socket.io
ConnIds == 1..MaxConns

\* A connection: not yet opened, admitted ("active") or closed; `user` is the
\* account id captured in socket.data.user at admission.
NoConn == [user |-> Null, state |-> "none"]

\* Room names of socket.join / io.to, and the originating socket of socket.emit.
RoleRoom(role) == [kind |-> "role", role |-> role, id |-> Null]
\* C19 mutant: every account is put in one and the same identity channel.
UserRoom_OneForAll(uid) == [kind |-> "user", role |-> "", id |-> Null]
UserRoom(uid) == [kind |-> "user", role |-> "", id |-> uid]
Self(cid) == [kind |-> "socket", role |-> "", id |-> cid]

\* io.use middleware: socket.data.user = { id, username, role } and nothing else.
SocketUser(uid) ==
  [id |-> uid, role |-> users[uid].role,
   vendorId |-> Undefined, deliveryPartnerId |-> Undefined]

\* One emitted message; latitude/longitude/status are Null/"" when the payload
\* has no such field.
Emit(to, event, orderId, status, latitude, longitude) ==
  [to |-> to, event |-> event, orderId |-> orderId, status |-> status,
   latitude |-> latitude, longitude |-> longitude]

Ack(cid, event) == Emit(Self(cid), event, Null, "", Null, Null)

\* A socket event handler suspended at an await.  partnerId is the partner the
\* handler read (its own profile, or order.deliveryPartnerId).
Handler(cid, uid, event, orderId, status, latitude, longitude, partnerId, pc) ==
  [conn |-> cid, uid |-> uid, event |-> event, orderId |-> orderId,
   status |-> status, latitude |-> latitude, longitude |-> longitude,
   partnerId |-> partnerId, pc |-> pc]

\* The event a handler has just returned from: connection, name, payload.
NoDone == [conn |-> Null, event |-> "none", orderId |-> Null, status |-> ""]
Done(cid, event, orderId, status) ==
  [conn |-> cid, event |-> event, orderId |-> orderId, status |-> status]

\* The projection columns of a partner row before any position was written.
NoPosition == [latitude |-> Null, longitude |-> Null, at |-> Null]

\* C21 mutant: the messages of the previous step are sent again.
Quiet_Replays == emits' = emits /\ done' = NoDone

\* A step of the request-style surface emits nothing on a socket.
Quiet == emits' = {} /\ done' = NoDone

Init ==
  /\ now = 1
  /\ orders = <<>>
  /\ isOnline = [p \in PartnerIds |-> FALSE]
  /\ http = {}
  /\ res = NoRes
  /\ conns = [c \in ConnIds |-> NoConn]
  /\ rooms = [c \in ConnIds |-> {}]
  /\ sock = {}
  /\ emits = {}
  /\ done = NoDone
  /\ position = [p \in PartnerIds |-> NoPosition]
  /\ locationUpdates = <<>>
  /\ isActive = [u \in DOMAIN users |-> users[u].isActive]

\* The clock advances.
Tick ==
  /\ now < MaxClock
  /\ now' = now + 1
  /\ res' = NoRes
  /\ Quiet
  /\ UNCHANGED <<isActive, orders, isOnline, http, connVars, locVars>>

\* POST /api/orders.  insertOrderSchema omits only id, orderNumber, createdAt
\* and updatedAt, so status and deliveryPartnerId of the body reach the row;
\* the column default "pending" applies when the body has no status.
createOrder(uid, body) ==
  LET user == AuthContext(uid)
      vendorId == IF user.role = "vendor" /\ user.vendorId # Undefined
                    THEN user.vendorId ELSE body.vendorId
      customerId == IF user.role = "customer" THEN user.id ELSE body.customerId
  IN [vendorId |-> vendorId,
      customerId |-> customerId,
      deliveryPartnerId |-> body.deliveryPartnerId,
      status |-> body.status,
      orderNumber |-> now,
      estimatedDeliveryTime |-> Null,
      actualDeliveryTime |-> Null]

OrderBodies ==
  [vendorId : VendorIds, customerId : {5}, deliveryPartnerId : {Null, 21},
   status : {"pending", "delivered"}]

\* C15 mutant: order_number has no unique index.
OrderNumberTaken_NoIndex(orderNumber) == FALSE

\* unique(order_number): a stored row already has this order number.
OrderNumberTaken(orderNumber) ==
  \E i \in DOMAIN orders : orders[i].orderNumber = orderNumber

CreateOrder(uid, body) ==
  LET req == Req("create", uid, Len(orders) + 1, body.status,
                 body.deliveryPartnerId, FALSE)
      row == createOrder(uid, body)
  IN /\ IF ~Admitted(uid)
          THEN /\ res' = Respond(req, Rejection(uid))
               /\ UNCHANGED orders
          ELSE IF users[uid].role \notin {"vendor", "customer"}
          THEN /\ res' = Respond(req, 403)
               /\ UNCHANGED orders
          ELSE IF OrderNumberTaken(row.orderNumber)
                 THEN \* unique(order_number) refuses the insert
                      /\ res' = Respond(req, 400)
                      /\ UNCHANGED orders
                 ELSE /\ orders' = Append(orders, row)
                      /\ res' = Respond(req, 200)
     /\ UNCHANGED <<now, isActive, isOnline, http, connVars, locVars>>
     /\ Quiet

\* PATCH /api/orders/:id/status, up to the await of storage.updateOrderStatus.
StatusRead(uid, orderId, status) ==
  LET req == Req("status", uid, orderId, status, Null, FALSE)
      user == AuthContext(uid)
  IN /\ IF ~Admitted(uid)
          THEN /\ res' = Respond(req, Rejection(uid))
               /\ UNCHANGED http
          ELSE IF status \notin Statuses
          THEN /\ res' = Respond(req, 400)
               /\ UNCHANGED http
          ELSE IF ~OrderExists(orderId)
                 THEN /\ res' = Respond(req, 404)
                      /\ UNCHANGED http
                 ELSE IF ~canUpdate(user, orders[orderId])
                        THEN /\ res' = Respond(req, 403)
                             /\ UNCHANGED http
                        ELSE /\ http' = http \cup
                                  {Suspended(req, "write", orders[orderId].status)}
                             /\ res' = NoRes
     /\ UNCHANGED <<now, isActive, orders, isOnline, connVars, locVars>>
     /\ Quiet

\* PATCH /api/orders/:id/status: storage.updateOrderStatus and the response.
StatusWrite(h) ==
  /\ h.req.kind = "status" /\ h.pc = "write"
  /\ orders' = updateOrderStatus(h.req.orderId, h.req.status)
  /\ http' = http \ {h}
  /\ res' = Respond(h.req, 200)
  /\ UNCHANGED <<now, isActive, isOnline, connVars, locVars>>
  /\ Quiet

\* C17 mutant: any vendor may assign on any order.
OwnsOrder_AnyVendor(user, order) == TRUE

\* `order.vendorId !== req.user.vendorId` of the assign handler, negated.
OwnsOrder(user, order) == order.vendorId = user.vendorId

\* PATCH /api/orders/:id/assign, up to the await of storage.getDeliveryPartner.
AssignRead(uid, orderId, partnerId) ==
  LET req == Req("assign", uid, orderId, "", partnerId, FALSE)
      user == AuthContext(uid)
  IN /\ IF ~Admitted(uid)
          THEN /\ res' = Respond(req, Rejection(uid))
               /\ UNCHANGED http
          ELSE IF user.role # "vendor"
          THEN /\ res' = Respond(req, 403)
               /\ UNCHANGED http
          ELSE IF ~OrderExists(orderId)
                 THEN /\ res' = Respond(req, 404)
                      /\ UNCHANGED http
                 ELSE IF ~OwnsOrder(user, orders[orderId])
                        THEN /\ res' = Respond(req, 403)
                             /\ UNCHANGED http
                        ELSE /\ http' = http \cup
                                  {Suspended(req, "partner", orders[orderId].status)}
                             /\ res' = NoRes
     /\ UNCHANGED <<now, isActive, orders, isOnline, connVars, locVars>>
     /\ Quiet

\* PATCH /api/orders/:id/assign: the partner row arrives; availability check.
AssignPartner(h) ==
  /\ h.req.kind = "assign" /\ h.pc = "partner"
  /\ IF ~PartnerAvailable(h.req.partnerId)
       THEN /\ http' = http \ {h}
            /\ res' = Respond(h.req, 400)
       ELSE /\ http' = (http \ {h}) \cup {[h EXCEPT !.pc = "write"]}
            /\ res' = NoRes
  /\ UNCHANGED <<now, isActive, orders, isOnline, connVars, locVars>>
  /\ Quiet

\* PATCH /api/orders/:id/assign: storage.assignDeliveryPartner and the response.
AssignWrite(h) ==
  /\ h.req.kind = "assign" /\ h.pc = "write"
  /\ orders' = assignDeliveryPartner(h.req.orderId, h.req.partnerId)
  /\ http' = http \ {h}
  /\ res' = Respond(h.req, 200)
  /\ UNCHANGED <<now, isActive, isOnline, connVars, locVars>>
  /\ Quiet

\* The UPDATE without its WHERE clause.
updateDeliveryPartnerStatus_AllPartners(partnerId, flag) ==
  [p \in PartnerIds |-> flag]

\* UPDATE delivery_partners SET is_online WHERE id = partnerId
updateDeliveryPartnerStatus(partnerId, flag) ==
  [isOnline EXCEPT ![partnerId] = flag]

\* PATCH /api/delivery-partners/status
PartnerStatus(uid, flag) ==
  LET req == Req("online", uid, Null, "", Null, flag)
      user == AuthContext(uid)
  IN /\ IF ~Admitted(uid)
          THEN /\ res' = Respond(req, Rejection(uid))
               /\ UNCHANGED isOnline
          ELSE IF user.role # "delivery"
          THEN /\ res' = Respond(req, 403)
               /\ UNCHANGED isOnline
          ELSE IF user.deliveryPartnerId = Undefined
                 THEN /\ res' = Respond(req, 400)
                      /\ UNCHANGED isOnline
                 ELSE /\ isOnline' = updateDeliveryPartnerStatus(
                                        user.deliveryPartnerId, flag)
                      /\ res' = Respond(req, 200)
     /\ UNCHANGED <<now, isActive, orders, http, connVars, locVars>>
     /\ Quiet

\* io.use authentication middleware and io.on('connection').  token is the
\* account id the verified token carries (NoSuchId: it names no account), or
\* Missing / Forged.
Connect(cid, token) ==
  /\ conns[cid].state = "none"
  /\ IF ~Admitted(token)
       THEN \* next(new Error(...)): the connection is refused
            /\ conns' = [conns EXCEPT ![cid] = [user |-> Null, state |-> "closed"]]
            /\ UNCHANGED rooms
       ELSE /\ conns' = [conns EXCEPT ![cid] =
                           [user |-> Decoded(token), state |-> "active"]]
            /\ rooms' = [rooms EXCEPT ![cid] =
                           {RoleRoom(SocketUser(Decoded(token)).role),
                            UserRoom(Decoded(token))}]
  /\ emits' = {}
  /\ done' = NoDone
  /\ res' = NoRes
  /\ UNCHANGED <<now, isActive, http, sock, dbVars>>

\* C20 mutant: a closed connection stays in its rooms.
Disconnect_KeepsRooms(cid) ==
  /\ conns[cid].state = "active"
  /\ conns' = [conns EXCEPT ![cid] = [user |-> Null, state |-> "closed"]]
  /\ emits' = {}
  /\ done' = NoDone
  /\ res' = NoRes
  /\ UNCHANGED <<now, isActive, http, sock, dbVars, rooms>>

\* 'disconnect': socket.io removes the socket from its rooms; the handler logs.
Disconnect(cid) ==
  /\ conns[cid].state = "active"
  /\ conns' = [conns EXCEPT ![cid] = [user |-> Null, state |-> "closed"]]
  /\ rooms' = [rooms EXCEPT ![cid] = {}]
  /\ emits' = {}
  /\ done' = NoDone
  /\ res' = NoRes
  /\ UNCHANGED <<now, isActive, http, sock, dbVars>>

\* decimal(10, 8) and decimal(11, 8): the integer part the column can hold.
LatitudeFits(latitude) == latitude > -100 /\ latitude < 100
LongitudeFits(longitude) == longitude > -1000 /\ longitude < 1000

\* The UPDATE without its WHERE clause.
updateDeliveryPartnerLocation_AllPartners(partnerId, latitude, longitude) ==
  [p \in PartnerIds |->
     [latitude |-> latitude, longitude |-> longitude, at |-> now]]

\* UPDATE delivery_partners SET current_latitude, current_longitude,
\* last_location_update WHERE id = partnerId
updateDeliveryPartnerLocation(partnerId, latitude, longitude) ==
  [position EXCEPT ![partnerId] =
     [latitude |-> latitude, longitude |-> longitude, at |-> now]]

\* C22 mutant: a sample equal to the partner's previous one is not stored.
createLocationUpdate_Deduplicates(partnerId, latitude, longitude, orderId) ==
  IF \E i \in DOMAIN locationUpdates :
       /\ locationUpdates[i].deliveryPartnerId = partnerId
       /\ locationUpdates[i].latitude = latitude
       /\ locationUpdates[i].longitude = longitude
    THEN locationUpdates
    ELSE Append(locationUpdates,
                [deliveryPartnerId |-> partnerId, orderId |-> orderId,
                 latitude |-> latitude, longitude |-> longitude,
                 timestamp |-> now])

\* An upsert: the partner's stored sample, if any, is replaced.
createLocationUpdate_Overwrites(partnerId, latitude, longitude, orderId) ==
  LET row == [deliveryPartnerId |-> partnerId, orderId |-> orderId,
              latitude |-> latitude, longitude |-> longitude, timestamp |-> now]
  IN IF \E i \in DOMAIN locationUpdates :
          locationUpdates[i].deliveryPartnerId = partnerId
       THEN [i \in DOMAIN locationUpdates |->
               IF locationUpdates[i].deliveryPartnerId = partnerId
                 THEN row ELSE locationUpdates[i]]
       ELSE Append(locationUpdates, row)

\* INSERT INTO location_updates; timestamp defaults to now().
createLocationUpdate(partnerId, latitude, longitude, orderId) ==
  Append(locationUpdates,
         [deliveryPartnerId |-> partnerId, orderId |-> orderId,
          latitude |-> latitude, longitude |-> longitude, timestamp |-> now])

\* The ids (positions in the table) of the samples of one partner.
PartnerSamples(partnerId) ==
  {i \in DOMAIN locationUpdates :
     locationUpdates[i].deliveryPartnerId = partnerId}

\* SELECT ... WHERE delivery_partner_id = partnerId ORDER BY timestamp DESC
\* LIMIT 1: the ids of the rows the query may return; rows with equal
\* timestamps come in no defined order.  The empty set is `undefined`.
getLatestLocationForPartner(partnerId) ==
  {i \in PartnerSamples(partnerId) :
     \A j \in PartnerSamples(partnerId) :
       locationUpdates[j].timestamp <= locationUpdates[i].timestamp}

\* JavaScript truthiness of an optional number: undefined and 0 are falsy
\* (0 stands for the number 0 here and for NULL in a column).
Truthy(n) == n \notin {Undefined, 0}

\* SQL `column = value`: never true of a NULL column; no row has id 0.
SqlEq(column, value) == column # Null /\ column = value

\* The sequences over the ids in `rows` that ORDER BY timestamp DESC may
\* produce: every row once, timestamps never increasing.
OrderedByTimestampDesc(rows) ==
  {q \in [1..Cardinality(rows) -> rows] :
     /\ \A a, b \in DOMAIN q : a # b => q[a] # q[b]
     /\ \A a, b \in DOMAIN q :
          a < b => locationUpdates[q[a]].timestamp >= locationUpdates[q[b]].timestamp}

\* getLocationHistory(partnerId, orderId?): the results the query may return.
getLocationHistory(partnerId, orderId) ==
  OrderedByTimestampDesc(
    {i \in PartnerSamples(partnerId) :
       Truthy(orderId) => SqlEq(locationUpdates[i].orderId, orderId)})

\* updateLocationSchema: latitude in [-90, 90], longitude in [-180, 180].
updateLocationSchema(latitude, longitude) ==
  /\ latitude >= -90 /\ latitude <= 90
  /\ longitude >= -180 /\ longitude <= 180

\* POST /api/location/update, up to the await of updateDeliveryPartnerLocation.
\* orderId is Null when the body has none.
LocationPost(uid, latitude, longitude, orderId) ==
  LET user == AuthContext(uid)
      req == LocationReq(uid, IF Admitted(uid) THEN user.deliveryPartnerId
                                               ELSE Undefined,
                         latitude, longitude, orderId)
  IN /\ IF ~Admitted(uid)
          THEN /\ res' = Respond(req, Rejection(uid))
               /\ UNCHANGED http
          ELSE IF user.role # "delivery"
          THEN /\ res' = Respond(req, 403)
               /\ UNCHANGED http
          ELSE IF ~updateLocationSchema(latitude, longitude)
          THEN /\ res' = Respond(req, 400)
               /\ UNCHANGED http
          ELSE IF user.deliveryPartnerId = Undefined
          THEN /\ res' = Respond(req, 400)
               /\ UNCHANGED http
          ELSE /\ http' = http \cup {Suspended(req, "projection", "")}
               /\ res' = NoRes
     /\ UNCHANGED <<now, isActive, orders, isOnline, connVars, locVars>>
     /\ Quiet

\* POST /api/location/update: storage.updateDeliveryPartnerLocation.
LocationProjection(h) ==
  /\ h.req.kind = "location" /\ h.pc = "projection"
  /\ position' = updateDeliveryPartnerLocation(
                    h.req.partnerId, h.req.latitude, h.req.longitude)
  /\ http' = (http \ {h}) \cup {[h EXCEPT !.pc = "insert"]}
  /\ res' = NoRes
  /\ UNCHANGED <<now, isActive, orders, isOnline, connVars, locationUpdates>>
  /\ Quiet

\* POST /api/location/update: storage.createLocationUpdate and the response.
LocationInsert(h) ==
  /\ h.req.kind = "location" /\ h.pc = "insert"
  /\ IF h.req.orderId # Null /\ ~OrderExists(h.req.orderId)
       THEN \* order_id references orders.id: the insert throws, catch answers
            /\ res' = Respond(h.req, 400)
            /\ UNCHANGED locationUpdates
       ELSE /\ locationUpdates' = createLocationUpdate(
                   h.req.partnerId, h.req.latitude, h.req.longitude, h.req.orderId)
            /\ res' = Respond(h.req, 200)
  /\ http' = http \ {h}
  /\ UNCHANGED <<now, isActive, orders, isOnline, connVars, position>>
  /\ Quiet

\* The handlers re-run the admission checks on the bound account per event.
Listening_Reverifies(cid) ==
  conns[cid].state = "active" /\ isActive[conns[cid].user]

\* A listener registered in io.on('connection') runs for every event of its
\* connection while the connection is open; it reads socket.data.user only.
Listening(cid) == conns[cid].state = "active"

\* UPDATE users SET is_active = false: made on the database, by no route.
Deactivate(uid) ==
  /\ isActive[uid]
  /\ isActive' = [isActive EXCEPT ![uid] = FALSE]
  /\ res' = NoRes
  /\ Quiet
  /\ UNCHANGED <<now, orders, isOnline, http, connVars, locVars>>

\* socket 'order_status_update', up to the await of storage.updateOrderStatus.
SockOrderStatusUpdate(cid, orderId, status) ==
  LET user == SocketUser(conns[cid].user)
  IN /\ Listening(cid)
     /\ IF ~OrderExists(orderId)
          THEN \* if (!order) return
               /\ done' = Done(cid, "order_status_update", orderId, status)
               /\ UNCHANGED sock
          ELSE IF ~canUpdate(user, orders[orderId])
                 THEN \* if (!canUpdate) return
                      /\ done' = Done(cid, "order_status_update", orderId, status)
                      /\ UNCHANGED sock
                 ELSE /\ sock' = sock \cup
                           {Handler(cid, user.id, "order_status_update", orderId,
                                    status, Null, Null,
                                    orders[orderId].deliveryPartnerId, "write")}
                      /\ done' = NoDone
     /\ emits' = {}
     /\ res' = NoRes
     /\ UNCHANGED <<now, isActive, http, conns, rooms, dbVars>>

\* The listener registered for every role.
HasLocationListener_AnyRole(user) == TRUE

\* if (user.role === 'delivery') socket.on('location_update', ...)
HasLocationListener(user) == user.role = "delivery"

\* socket 'location_update', up to the await of updateDeliveryPartnerLocation.
\* The listener is registered only on connections whose role is delivery.
SockLocationUpdate(cid, latitude, longitude, orderId) ==
  LET user == SocketUser(conns[cid].user)
      partner == getDeliveryPartnerByUserId(user.id)
  IN /\ Listening(cid)
     /\ IF ~HasLocationListener(user)
          THEN \* no listener: the event is dropped
               /\ done' = NoDone
               /\ UNCHANGED sock
          ELSE IF partner = Undefined
                 THEN \* if (!partner) return
                      /\ done' = Done(cid, "location_update", orderId, "")
                      /\ UNCHANGED sock
                 ELSE /\ sock' = sock \cup
                           {Handler(cid, user.id, "location_update", orderId, "",
                                    latitude, longitude, partner, "projection")}
                      /\ done' = NoDone
     /\ emits' = {}
     /\ res' = NoRes
     /\ UNCHANGED <<now, isActive, http, conns, rooms, dbVars>>

\* C11 mutant: the position is published to the role channel of the account.
LocationMessage_ToRoleRoom(uid, k) ==
  Emit(RoleRoom(users[uid].role), "delivery_location_update", k.orderId, "",
       k.latitude, k.longitude)
\* The messages of io.to(`user_${id}`).emit for a position and for a status.
LocationMessage(uid, k) ==
  Emit(UserRoom(uid), "delivery_location_update", k.orderId, "",
       k.latitude, k.longitude)
StatusMessage(uid, k) ==
  Emit(UserRoom(uid), "order_status_changed", k.orderId, k.status, Null, Null)

\* A suspended 'location_update' handler resumes after its await.
ResumeLocation(k) ==
  CASE k.pc = "projection" ->
         IF LatitudeFits(k.latitude) /\ LongitudeFits(k.longitude)
           THEN /\ position' = updateDeliveryPartnerLocation(
                                  k.partnerId, k.latitude, k.longitude)
                /\ sock' = (sock \ {k}) \cup {[k EXCEPT !.pc = "insert"]}
                /\ emits' = {}
                /\ done' = NoDone
                /\ UNCHANGED <<orders, isOnline, locationUpdates>>
           ELSE \* numeric field overflow: the catch block answers
                /\ sock' = sock \ {k}
                /\ emits' = {Ack(k.conn, "location_update_error")}
                /\ done' = Done(k.conn, "location_update", k.orderId, "")
                /\ UNCHANGED dbVars
    [] k.pc = "insert" ->
         IF k.orderId # Null /\ ~OrderExists(k.orderId)
           THEN \* order_id references orders.id: the insert is refused
                /\ sock' = sock \ {k}
                /\ emits' = {Ack(k.conn, "location_update_error")}
                /\ done' = Done(k.conn, "location_update", k.orderId, "")
                /\ UNCHANGED dbVars
           ELSE /\ locationUpdates' = createLocationUpdate(
                       k.partnerId, k.latitude, k.longitude, k.orderId)
                /\ IF k.orderId # Null
                     THEN /\ sock' = (sock \ {k}) \cup {[k EXCEPT !.pc = "order"]}
                          /\ emits' = {}
                          /\ done' = NoDone
                     ELSE /\ sock' = sock \ {k}
                          /\ emits' = {Ack(k.conn, "location_update_success")}
                          /\ done' = Done(k.conn, "location_update", k.orderId, "")
                /\ UNCHANGED <<orders, isOnline, position>>
    [] k.pc = "order" ->
         \* storage.getOrder answered
         IF OrderExists(k.orderId)
           THEN \* publish to the customer, ask for the vendor
                /\ emits' = {LocationMessage(orders[k.orderId].customerId, k)}
                /\ sock' = (sock \ {k}) \cup {[k EXCEPT !.pc = "vendor"]}
                /\ done' = NoDone
                /\ UNCHANGED dbVars
           ELSE /\ emits' = {Ack(k.conn, "location_update_success")}
                /\ sock' = sock \ {k}
                /\ done' = Done(k.conn, "location_update", k.orderId, "")
                /\ UNCHANGED dbVars
    [] OTHER ->
         \* storage.getVendor answered; publish to the vendor, acknowledge
         /\ emits' = (IF orders[k.orderId].vendorId \in VendorIds
                        THEN {LocationMessage(
                                vendors[orders[k.orderId].vendorId].userId, k)}
                        ELSE {})
                     \cup {Ack(k.conn, "location_update_success")}
         /\ sock' = sock \ {k}
         /\ done' = Done(k.conn, "location_update", k.orderId, "")
         /\ UNCHANGED dbVars

\* A suspended 'order_status_update' handler resumes after its await.
ResumeStatus(k) ==
  CASE k.pc = "write" ->
         /\ orders' = updateOrderStatus(k.orderId, k.status)
         /\ sock' = (sock \ {k}) \cup {[k EXCEPT !.pc = "customer"]}
         /\ emits' = {}
         /\ done' = NoDone
         /\ UNCHANGED <<isOnline, locVars>>
    [] k.pc = "customer" ->
         /\ emits' = {StatusMessage(orders[k.orderId].customerId, k)}
         /\ sock' = (sock \ {k}) \cup {[k EXCEPT !.pc = "vendor"]}
         /\ done' = NoDone
         /\ UNCHANGED dbVars
    [] k.pc = "vendor" ->
         LET vendorId == orders[k.orderId].vendorId
             published == IF vendorId \in VendorIds
                            THEN {StatusMessage(vendors[vendorId].userId, k)}
                            ELSE {}
         IN IF k.partnerId # Null
              THEN /\ emits' = published
                   /\ sock' = (sock \ {k}) \cup {[k EXCEPT !.pc = "partner"]}
                   /\ done' = NoDone
                   /\ UNCHANGED dbVars
              ELSE /\ emits' = published
                               \cup {Ack(k.conn, "order_status_update_success")}
                   /\ sock' = sock \ {k}
                   /\ done' = Done(k.conn, "order_status_update", k.orderId, k.status)
                   /\ UNCHANGED dbVars
    [] OTHER ->
         /\ emits' = (IF k.partnerId \in PartnerIds
                        THEN {StatusMessage(deliveryPartners[k.partnerId].userId, k)}
                        ELSE {})
                     \cup {Ack(k.conn, "order_status_update_success")}
         /\ sock' = sock \ {k}
         /\ done' = Done(k.conn, "order_status_update", k.orderId, k.status)
         /\ UNCHANGED dbVars

\* The event loop runs the continuation of one suspended socket handler.
SockResume(k) ==
  /\ IF k.event = "location_update" THEN ResumeLocation(k) ELSE ResumeStatus(k)
  /\ res' = NoRes
  /\ UNCHANGED <<now, isActive, http, conns, rooms>>

\* Order ids a caller may name: the stored ones and one that names no row.
OrderIdInputs == (DOMAIN orders) \cup {NoSuchId}

Next ==
  \/ Tick
  \/ /\ Len(orders) < MaxOrders
     /\ \E uid \in UserIds, body \in OrderBodies : CreateOrder(uid, body)
  \/ /\ Cardinality(http) < MaxInFlight
     /\ \E uid \in UserIds, o \in OrderIdInputs, s \in Statuses \cup {"bogus"} :
          StatusRead(uid, o, s)
  \/ \E h \in http : StatusWrite(h)
  \/ /\ Cardinality(http) < MaxInFlight
     /\ \E uid \in UserIds, o \in OrderIdInputs, p \in PartnerIds \cup {NoSuchId} :
          AssignRead(uid, o, p)
  \/ \E h \in http : AssignPartner(h)
  \/ \E h \in http : AssignWrite(h)
  \/ \E uid \in UserIds, flag \in BOOLEAN : PartnerStatus(uid, flag)

Spec == Init /\ [][Next]_vars

\* ------------------------------------------------- concurrent assignments
\* One pending order of vendor 11 (a state Spec reaches), and the assign
\* handlers of its vendor running concurrently with each other and with the
\* partners' own online/offline updates.
InitRace ==
  /\ now = 1
  /\ orders = << [vendorId |-> 11, customerId |-> 5, deliveryPartnerId |-> Null,
                  status |-> "pending", orderNumber |-> 1,
                  estimatedDeliveryTime |-> Null, actualDeliveryTime |-> Null] >>
  /\ isOnline = [p \in PartnerIds |-> FALSE]
  /\ http = {}
  /\ res = NoRes
  /\ conns = [c \in ConnIds |-> NoConn]
  /\ rooms = [c \in ConnIds |-> {}]
  /\ sock = {}
  /\ emits = {}
  /\ done = NoDone
  /\ position = [p \in PartnerIds |-> NoPosition]
  /\ locationUpdates = <<>>
  /\ isActive = [u \in DOMAIN users |-> users[u].isActive]

NextRace ==
  \/ Tick
  \/ /\ Cardinality(http) < MaxRacers
     /\ \E uid \in {1, 2}, o \in OrderIdInputs, p \in PartnerIds \cup {NoSuchId} :
          AssignRead(uid, o, p)
  \/ \E h \in http : AssignPartner(h)
  \/ \E h \in http : AssignWrite(h)
  \/ \E uid \in {3, 4}, flag \in BOOLEAN : PartnerStatus(uid, flag)

SpecRace == InitRace /\ [][NextRace]_vars

\* -------------------------------------------------------- the socket surface
\* Accounts that open connections, and the payloads they send.
SocketTokens == {1, 3, 5, 6, NoSuchId}
Latitudes == {40, 200}
Longitudes == {-74}

\* One stored order of vendor 11 for customer 5: pending, or assigned to
\* partner 21 (both are states Spec reaches).
InitSocket ==
  /\ now = 1
  /\ \E assigned \in BOOLEAN :
       orders = << [vendorId |-> 11, customerId |-> 5,
                    deliveryPartnerId |-> IF assigned THEN 21 ELSE Null,
                    status |-> IF assigned THEN "assigned" ELSE "pending",
                    orderNumber |-> 1,
                    estimatedDeliveryTime |->
                       IF assigned THEN 1 + EstimateMinutes * MsPerMinute ELSE Null,
                    actualDeliveryTime |-> Null] >>
  /\ isOnline = [p \in PartnerIds |-> p = 21]
  /\ http = {}
  /\ res = NoRes
  /\ conns = [c \in ConnIds |-> NoConn]
  /\ rooms = [c \in ConnIds |-> {}]
  /\ sock = {}
  /\ emits = {}
  /\ done = NoDone
  /\ position = [p \in PartnerIds |-> NoPosition]
  /\ locationUpdates = <<>>
  /\ isActive = [u \in DOMAIN users |-> users[u].isActive]

NextSocket ==
  \/ Tick
  \/ \E cid \in ConnIds, token \in SocketTokens : Connect(cid, token)
  \/ \E cid \in ConnIds : Disconnect(cid)
  \/ /\ Cardinality(sock) < MaxInFlight
     /\ \E cid \in ConnIds, o \in OrderIdInputs, s \in {"picked_up", "delivered"} :
          SockOrderStatusUpdate(cid, o, s)
  \/ /\ Cardinality(sock) < MaxInFlight
     /\ Len(locationUpdates) < MaxSamples
     /\ \E cid \in ConnIds, lat \in Latitudes, lon \in Longitudes,
           o \in OrderIdInputs \cup {Null} :
          SockLocationUpdate(cid, lat, lon, o)
  \/ \E k \in sock : SockResume(k)
  \/ /\ Cardinality(http) < MaxInFlight
     /\ \E uid \in UserIds, o \in OrderIdInputs, s \in {"picked_up", "delivered"} :
          StatusRead(uid, o, s)
  \/ \E h \in http : StatusWrite(h)

SpecSocket == InitSocket /\ [][NextSocket]_vars

\* ------------------------------------------------------- several stored orders
\* Orders are created one after another, in the same millisecond or a later
\* one, while the operations that write order rows or read them for a position
\* broadcast run on the orders stored so far.
PlainBodies ==
  [vendorId : {11}, customerId : {5}, deliveryPartnerId : {Null},
   status : {"pending"}]

NextStored ==
  \/ Tick
  \/ /\ Len(orders) < MaxStored
     /\ \E uid \in {1, 3, 5}, body \in PlainBodies : CreateOrder(uid, body)
  \/ /\ Cardinality(http) < MaxInFlight
     /\ \E o \in OrderIdInputs, s \in {"picked_up", "delivered"} :
          StatusRead(1, o, s)
  \/ \E h \in http : StatusWrite(h)
  \/ /\ Cardinality(http) < MaxInFlight
     /\ \E o \in OrderIdInputs : AssignRead(1, o, 21)
  \/ \E h \in http : AssignPartner(h)
  \/ \E h \in http : AssignWrite(h)
  \/ PartnerStatus(3, TRUE)
  \/ Connect(1, 3)
  \/ /\ Cardinality(sock) < MaxInFlight
     /\ Len(locationUpdates) < MaxSamples
     /\ \E o \in DOMAIN orders : SockLocationUpdate(1, 40, -74, o)
  \/ \E k \in sock : SockResume(k)

SpecStored == Init /\ [][NextStored]_vars

\* ------------------------------------------------------------ authentication
\* Every entry point of the server, called with tokens of the owning vendor
\* (1), of the assigned partner (3), of the inactive account (8), of no
\* account, and with no token or one that does not verify.
AuthTokens == {1, 3} \cup InactiveIds \cup {NoSuchId, Missing, Forged}

\* Order 1 of vendor 11 was created at millisecond 1 and assigned to partner
\* 21, who is online; the clock has moved on (a state Spec reaches).
InitAuth ==
  /\ now = 2
  /\ orders = << [vendorId |-> 11, customerId |-> 5, deliveryPartnerId |-> 21,
                  status |-> "assigned", orderNumber |-> 1,
                  estimatedDeliveryTime |-> 1 + EstimateMinutes * MsPerMinute,
                  actualDeliveryTime |-> Null] >>
  /\ isOnline = [p \in PartnerIds |-> p = 21]
  /\ http = {}
  /\ res = NoRes
  /\ conns = [c \in ConnIds |-> NoConn]
  /\ rooms = [c \in ConnIds |-> {}]
  /\ sock = {}
  /\ emits = {}
  /\ done = NoDone
  /\ position = [p \in PartnerIds |-> NoPosition]
  /\ locationUpdates = <<>>
  /\ isActive = [u \in DOMAIN users |-> users[u].isActive]

NextAuth ==
  \/ \E cid \in ConnIds, token \in AuthTokens : Connect(cid, token)
  \/ \E cid \in ConnIds : Disconnect(cid)
  \/ /\ Cardinality(sock) < MaxInFlight
     /\ \E cid \in ConnIds, o \in {1} :
          SockOrderStatusUpdate(cid, o, "delivered")
  \/ /\ Cardinality(sock) < MaxInFlight
     /\ Len(locationUpdates) < MaxSamples
     /\ \E cid \in ConnIds, o \in {1} : SockLocationUpdate(cid, 40, -74, o)
  \/ \E k \in sock : SockResume(k)
  \/ /\ Len(orders) < MaxStored
     /\ \E token \in AuthTokens, body \in PlainBodies : CreateOrder(token, body)
  \/ /\ Cardinality(http) < MaxInFlight
     /\ \E token \in AuthTokens, o \in {1} :
          StatusRead(token, o, "delivered")
  \/ \E h \in http : StatusWrite(h)
  \/ /\ Cardinality(http) < MaxInFlight
     /\ \E token \in AuthTokens, o \in {1} : AssignRead(token, o, 21)
  \/ \E h \in http : AssignPartner(h)
  \/ \E h \in http : AssignWrite(h)
  \/ \E token \in AuthTokens : PartnerStatus(token, FALSE)
  \/ /\ Cardinality(http) < MaxInFlight
     /\ Len(locationUpdates) < MaxSamples
     /\ \E token \in AuthTokens, o \in {1} :
          LocationPost(token, 40, -74, o)
  \/ \E h \in http : LocationProjection(h)
  \/ \E h \in http : LocationInsert(h)

SpecAuth == InitAuth /\ [][NextAuth]_vars

\* ------------------------------------------------------- position submissions
\* Partners 21 (account 3) and 22 (account 4) submit positions through the
\* request-style endpoint, partner 21 also through its socket; the vendor's
\* account 1 tries the endpoint too.  Latitude 95 is outside [-90, 90] and
\* fits decimal(10, 8).
PostLatitudes == {40, 95}
PostOrderIds == {Null, 1, NoSuchId}

NextLocation ==
  \/ Tick
  \/ \E cid \in ConnIds : Connect(cid, 3)
  \/ /\ Cardinality(http) + Cardinality(sock) < MaxInFlight
     /\ Len(locationUpdates) < MaxPosts
     /\ \E uid \in {1, 3, 4}, lat \in PostLatitudes, o \in PostOrderIds :
          LocationPost(uid, lat, -74, o)
  \/ \E h \in http : LocationProjection(h)
  \/ \E h \in http : LocationInsert(h)
  \/ /\ Cardinality(http) + Cardinality(sock) < MaxInFlight
     /\ Len(locationUpdates) < MaxPosts
     /\ \E cid \in ConnIds, lat \in PostLatitudes, o \in PostOrderIds :
          SockLocationUpdate(cid, lat, -74, o)
  \/ \E k \in sock : SockResume(k)

SpecLocation == InitSocket /\ [][NextLocation]_vars

\* ---------------------------------------------------- whose rows an actor writes
\* Every operation of both surfaces, by vendor 1, partners 3 and 4 and
\* customer 5, on the stored order, with the clock standing still.
NextOwner ==
  \/ Connect(1, 3)
  \/ \E uid \in {1, 3, 4, 5}, flag \in BOOLEAN : PartnerStatus(uid, flag)
  \/ /\ Cardinality(http) + Cardinality(sock) < MaxInFlight
     /\ \E p \in PartnerIds : AssignRead(1, 1, p)
  \/ \E h \in http : AssignPartner(h)
  \/ \E h \in http : AssignWrite(h)
  \/ /\ Cardinality(http) + Cardinality(sock) < MaxInFlight
     /\ \E uid \in {1, 3}, s \in {"picked_up", "cancelled"} :
          StatusRead(uid, 1, s)
  \/ \E h \in http : StatusWrite(h)
  \/ /\ Cardinality(http) + Cardinality(sock) < MaxInFlight
     /\ Len(locationUpdates) < MaxPosts
     /\ \E uid \in {1, 3, 4, 5}, lat \in {40, 41}, o \in {Null, 1} :
          LocationPost(uid, lat, -74, o)
  \/ \E h \in http : LocationProjection(h)
  \/ \E h \in http : LocationInsert(h)
  \/ /\ Cardinality(http) + Cardinality(sock) < MaxInFlight
     /\ Len(locationUpdates) < MaxPosts
     /\ \E lat \in {40, 41} : SockLocationUpdate(1, lat, -74, 1)
  \/ \E k \in sock : SockResume(k)

SpecOwner == InitAuth /\ [][NextOwner]_vars

\* ------------------------------------------------- concurrent socket events
\* The account of partner 21 on one or two connections and by request, with
\* up to MaxRacers handlers suspended at once: nothing in the handlers makes
\* an event wait for the previous one.
NextConcurrent ==
  \/ Tick
  \/ \E cid \in ConnIds : Connect(cid, 3)
  \/ /\ Cardinality(http) + Cardinality(sock) < MaxRacers
     /\ Len(locationUpdates) < MaxSamples
     /\ \E cid \in ConnIds, lat \in {40, 41}, o \in {Null, 1} :
          SockLocationUpdate(cid, lat, -74, o)
  \/ /\ Cardinality(http) + Cardinality(sock) < MaxRacers
     /\ SockOrderStatusUpdate(1, 1, "picked_up")
  \/ \E k \in sock : SockResume(k)
  \/ /\ Cardinality(http) + Cardinality(sock) < MaxRacers
     /\ Len(locationUpdates) < MaxSamples
     /\ \E lat \in {40, 41} : LocationPost(3, lat, -74, Null)
  \/ \E h \in http : LocationProjection(h)
  \/ \E h \in http : LocationInsert(h)

SpecConcurrent == InitSocket /\ [][NextConcurrent]_vars

\* ------------------------------------------------- sessions that outlive
\* Connections of accounts 3 and 4 (the latter with the short-lived token),
\* while the accounts are deactivated and the clock passes the expiry.
NextSession ==
  \/ Tick
  \/ \E cid \in ConnIds, token \in {3, ShortLived} : Connect(cid, token)
  \/ \E cid \in ConnIds : Disconnect(cid)
  \/ \E uid \in {3, 4} : Deactivate(uid)
  \/ /\ Cardinality(sock) < MaxInFlight
     /\ \E cid \in ConnIds : SockOrderStatusUpdate(cid, 1, "picked_up")
  \/ /\ Cardinality(sock) < MaxInFlight
     /\ Len(locationUpdates) < MaxSamples
     /\ \E cid \in ConnIds, o \in {Null, 1} : SockLocationUpdate(cid, 40, -74, o)
  \/ \E k \in sock : SockResume(k)

SpecSession == InitSocket /\ [][NextSession]_vars

\* ================================================================== claims
\* The directed graph of the order lifecycle.
AllowedEdges ==
  {<<"pending", "assigned">>, <<"assigned", "picked_up">>,
   <<"picked_up", "in_transit">>, <<"picked_up", "delivered">>,
   <<"in_transit", "delivered">>, <<"pending", "cancelled">>,
   <<"assigned", "cancelled">>}

TerminalStatuses == {"delivered", "cancelled"}

\* The account `uid` is the vendor that owns order `o` or the partner assigned
\* to it, read from the tables themselves.
RelatedTo(uid, o) ==
  \/ /\ users[uid].role = "vendor"
     /\ \E v \in VendorIds : vendors[v].userId = uid /\ orders[o].vendorId = v
  \/ /\ users[uid].role = "delivery"
     /\ \E p \in PartnerIds :
          deliveryPartners[p].userId = uid /\ orders[o].deliveryPartnerId = p

\* C1: every change of an order's stored status, by a status update or an
\* assign, is one of the seven allowed edges; any other requested edge leaves
\* the status unchanged.
C1_StatusWalksAllowedEdges ==
  [][\A o \in DOMAIN orders :
       orders'[o].status # orders[o].status
         => <<orders[o].status, orders'[o].status>> \in AllowedEdges]_vars

\* C2: once an order is delivered or cancelled, no step changes its status,
\* its partner id or its estimated/actual delivery timestamps.
C2_TerminalIsFrozen ==
  [][\A o \in DOMAIN orders :
       orders[o].status \in TerminalStatuses
         => /\ orders'[o].status = orders[o].status
            /\ orders'[o].deliveryPartnerId = orders[o].deliveryPartnerId
            /\ orders'[o].estimatedDeliveryTime = orders[o].estimatedDeliveryTime
            /\ orders'[o].actualDeliveryTime = orders[o].actualDeliveryTime]_vars

\* C3: of two assign calls that both read the order as pending, the one whose
\* write comes second (the order is no longer pending) is answered with a
\* conflict, not success, and changes no field of the order.
C3_LoserOfRaceConflicts ==
  [][\A h \in http :
       (/\ h.req.kind = "assign" /\ h.pc = "write" /\ h.seen = "pending"
        /\ orders[h.req.orderId].status # "pending"
        /\ AssignWrite(h))
         => res'.code # 200 /\ orders' = orders]_vars

\* C4: an assign call by the owning vendor that finds the order not pending is
\* answered Conflict/NotFound and leaves status, partner id and estimated
\* delivery time as they were, also when the partner is online.
C4_AssignNeedsPending ==
  [][\A h \in http :
       (/\ h.req.kind = "assign" /\ h.seen # "pending"
        /\ AssignWrite(h))
         => res'.code # 200 /\ orders' = orders]_vars

\* C5: an assign call of the owning vendor whose partner does not exist or is
\* offline when the handler looks it up is rejected (400) there and then: the
\* handler ends and no order row changes, so the order reads as before.
C5_UnavailablePartnerRejected ==
  [][\A h \in http :
       (/\ h.req.kind = "assign" /\ h.pc = "partner"
        /\ (h.req.partnerId \notin PartnerIds \/ ~isOnline[h.req.partnerId])
        /\ h \notin http')
         => /\ res' = Respond(h.req, 400)
            /\ http' = http \ {h}
            /\ orders' = orders]_vars

\* C5 witness: an assign has just been rejected while no partner is online,
\* and its order reads pending with no partner.
C5_Witness ==
  /\ res.kind = "assign" /\ res.code = 400
  /\ OrderExists(res.orderId)
  /\ orders[res.orderId].status = "pending"
  /\ orders[res.orderId].deliveryPartnerId = Null
  /\ \A p \in PartnerIds : ~isOnline[p]

\* C6: in the state right after an assign wrote the order as assigned, the
\* partner it wrote is online (the write step does not touch the flag, so this
\* is the flag at the moment of the write).
C6_AssignedWhileOnline ==
  (res.kind = "assign" /\ res.code = 200)
    => /\ orders[res.orderId].deliveryPartnerId \in PartnerIds
       /\ isOnline[orders[res.orderId].deliveryPartnerId]
\* C7: a status-update request, request-style or socket, from an account that
\* is neither the order's vendor nor its assigned partner is denied and changes
\* nothing: a 403 answer changes no order and suspends no handler; a request
\* of an unrelated account on a stored order has no outcome but that denial
\* (403 on the request-style surface, a return without a write on the socket);
\* a handler that goes on to the write belongs to an account related to the
\* order it read.
C7_UnrelatedActorDenied ==
  [][/\ (res'.kind = "status" /\ res'.code = 403)
          => http' = http /\ orders' = orders
     /\ (\/ http' # http
         \/ res'.kind = "status" /\ res'.code # 403 /\ OrderExists(res'.orderId))
          => \A uid \in UserIds, o \in DOMAIN orders, s \in Statuses :
               ~RelatedTo(uid, o) => ~StatusRead(uid, o, s)
     /\ (sock' # sock \/ orders' # orders)
          => \A cid \in ConnIds, o \in DOMAIN orders, s \in Statuses :
               (conns[cid].state = "active" /\ ~RelatedTo(conns[cid].user, o))
                 => ~SockOrderStatusUpdate(cid, o, s)
     /\ \A h \in http' \ http :
          h.req.kind = "status" => RelatedTo(h.req.uid, h.req.orderId)
     /\ \A k \in sock' \ sock :
          (k.event = "order_status_update" /\ k.pc = "write")
            => RelatedTo(k.uid, k.orderId)]_vars

\* C7 witness: a status request on a stored order has just been denied.
C7_Witness ==
  /\ res.kind = "status" /\ res.code = 403
  /\ OrderExists(res.orderId)

\* C8: when the handler of order_status_update {O, picked_up}, sent by the
\* partner assigned to O on its admitted connection, has returned, O is no
\* longer in status assigned (it was moved to picked_up).
C8_AssignedPartnerPicksUp ==
  (/\ done.event = "order_status_update" /\ done.status = "picked_up"
   /\ OrderExists(done.orderId)
   /\ conns[done.conn].state = "active"
   /\ users[conns[done.conn].user].role = "delivery"
   /\ RelatedTo(conns[done.conn].user, done.orderId))
    => orders[done.orderId].status # "assigned"

\* The acknowledgments among the messages just emitted.
AcksOf(event) ==
  {e \in emits : e.event \in {event \o "_success", event \o "_error"}}

\* C9: the step in which an order_status_update handler returns emits exactly
\* one acknowledgment, addressed to the originating connection.
C9_StatusEventAcknowledged ==
  done.event = "order_status_update"
    => /\ Cardinality(AcksOf("order_status_update")) = 1
       /\ \A e \in AcksOf("order_status_update") : e.to = Self(done.conn)

\* C10: the step in which a location_update handler returns emits exactly one
\* acknowledgment, addressed to the originating connection.
C10_LocationEventAcknowledged ==
  done.event = "location_update"
    => /\ Cardinality(AcksOf("location_update")) = 1
       /\ \A e \in AcksOf("location_update") : e.to = Self(done.conn)

\* The position broadcasts among the messages a step emits.
PositionBroadcasts(msgs) == {e \in msgs : e.event = "delivery_location_update"}

\* C11: a location_update handler tagged with a stored order O reaches its
\* success acknowledgment only through two steps: the one that publishes
\* delivery_location_update {O, lat, lon} to the identity channel of O's
\* customer and nothing else, and the final one that publishes the same payload
\* to the identity channel of O's vendor's account together with the
\* acknowledgment.  No step publishes a position broadcast to any other
\* channel or with another payload, and a handler with no order id finishes
\* without publishing any.
C11_PositionPublishedToCustomerAndVendor ==
  [][/\ \A e \in PositionBroadcasts(emits') :
          \E k \in sock \ sock' :
            /\ k.event = "location_update" /\ OrderExists(k.orderId)
            /\ e.orderId = k.orderId
            /\ e.latitude = k.latitude /\ e.longitude = k.longitude
            /\ \/ e.to = UserRoom(orders[k.orderId].customerId)
               \/ e.to = UserRoom(vendors[orders[k.orderId].vendorId].userId)
     /\ \A k \in sock' \ sock :
          (k.event = "location_update" /\ k.pc = "vendor")
            => emits' = {Emit(UserRoom(orders[k.orderId].customerId),
                              "delivery_location_update", k.orderId, "",
                              k.latitude, k.longitude)}
     /\ \A k \in sock \ sock' :
          (k.event = "location_update"
           /\ Ack(k.conn, "location_update_success") \in emits')
            => IF k.orderId = Null
                 THEN PositionBroadcasts(emits') = {}
                 ELSE OrderExists(k.orderId) =>
                      /\ k.pc = "vendor"
                      /\ PositionBroadcasts(emits') =
                           {Emit(UserRoom(vendors[orders[k.orderId].vendorId].userId),
                                 "delivery_location_update", k.orderId, "",
                                 k.latitude, k.longitude)}]_vars

\* C11 witness: a position event tagged with the stored order has just
\* succeeded; the broadcast to the vendor's account accompanies the
\* acknowledgment.
C11_Witness ==
  /\ done.event = "location_update" /\ OrderExists(done.orderId)
  /\ Ack(done.conn, "location_update_success") \in emits
  /\ \E e \in PositionBroadcasts(emits) :
       e.to = UserRoom(vendors[orders[done.orderId].vendorId].userId)

\* The status broadcasts for order o among the messages just emitted.
StatusBroadcasts(o) ==
  {e \in emits : e.event = "order_status_changed" /\ e.orderId = o}

\* C12: a status update of a stored order O that has succeeded is followed by
\* order_status_changed for O on the identity channels of O's parties: the
\* step that completes an order_status_update sent by O's vendor or assigned
\* partner, and the step that answers a status request with success, publish
\* a status broadcast for O.
C12_StatusChangePublished ==
  /\ (/\ done.event = "order_status_update"
      /\ OrderExists(done.orderId)
      /\ conns[done.conn].state = "active"
      /\ RelatedTo(conns[done.conn].user, done.orderId))
       => StatusBroadcasts(done.orderId) # {}
  /\ (res.kind = "status" /\ res.code = 200)
       => StatusBroadcasts(res.orderId) # {}

\* C13: a step that moves an order from pending to assigned is the write of
\* an assign call, and it leaves the order with a partner id; a status-update
\* request asking for "assigned" takes no such step.
C13_AssignedOnlyByAssign ==
  [][\A o \in DOMAIN orders :
       (orders[o].status = "pending" /\ orders'[o].status = "assigned")
         => /\ res'.kind = "assign"
            /\ orders'[o].deliveryPartnerId \in PartnerIds]_vars

\* C14: in the state right after the create-order operation stored an order,
\* that order has status pending and no partner id.
C14_CreatedPendingUnassigned ==
  (res.kind = "create" /\ res.code = 200)
    => /\ orders[res.orderId].status = "pending"
       /\ orders[res.orderId].deliveryPartnerId = Null

\* C15: after every step any two distinct stored orders have different order
\* numbers and every stored order has one, and no step (status update, assign,
\* position event, a later create) changes the order number of a stored order.
C15_OrderNumberUniqueAndFixed ==
  [][/\ \A i, j \in DOMAIN orders' :
          i # j => orders'[i].orderNumber # orders'[j].orderNumber
     /\ \A i \in DOMAIN orders' : orders'[i].orderNumber # Null
     /\ \A i \in DOMAIN orders :
          /\ i \in DOMAIN orders'
          /\ orders'[i].orderNumber = orders[i].orderNumber]_vars

\* C15 witness: two orders are stored and an assign has just written one
\* of them.
C15_Witness ==
  /\ Len(orders) = 2
  /\ res.kind = "assign" /\ res.code = 200
  /\ orders[res.orderId].status = "assigned"

\* C16: every stored order whose status is delivered has a completion
\* (actual delivery) timestamp.
C16_DeliveredHasCompletionTime ==
  \A o \in DOMAIN orders :
    orders[o].status = "delivered" => orders[o].actualDeliveryTime # Null

\* The account `uid` is the account of the vendor that owns order `o`, read
\* from the tables themselves.
VendorOf(uid, o) ==
  \E v \in VendorIds : vendors[v].userId = uid /\ orders[o].vendorId = v

\* C17: an assign call by a non-vendor role is answered 403, by a vendor for
\* an order that does not exist 404, by a vendor that does not own the order
\* 403; an assign answered 403 or 404 changes no order or partner row and
\* leaves no handler behind; a handler that goes on towards the write belongs
\* to the vendor that owns the order.
C17_AssignOnlyByOwningVendor ==
  [][/\ (res'.kind = "assign" /\ res'.code \in {403, 404})
          => /\ orders' = orders /\ isOnline' = isOnline
             /\ position' = position /\ http' = http
     /\ (res'.kind = "assign" \/ http' # http)
          => \A uid \in UserIds, o \in OrderIdInputs,
                p \in PartnerIds \cup {NoSuchId} :
               AssignRead(uid, o, p)
                 => IF users[uid].role # "vendor"
                      THEN res'.code = 403
                      ELSE IF ~OrderExists(o)
                             THEN res'.code = 404
                             ELSE ~VendorOf(uid, o) => res'.code = 403
     /\ \A h \in http' \ http :
          h.req.kind = "assign"
            => /\ users[h.req.uid].role = "vendor"
               /\ OrderExists(h.req.orderId)
               /\ VendorOf(h.req.uid, h.req.orderId)]_vars

\* C17 witness: an assign on a stored order has just been refused with 403.
C17_Witness ==
  /\ res.kind = "assign" /\ res.code = 403
  /\ OrderExists(res.orderId)
  /\ orders[res.orderId].status = "pending"
  /\ orders[res.orderId].deliveryPartnerId = Null

\* Tokens that are missing, do not verify, or name no account or an inactive
\* one (UserIds are the active accounts).
BadTokens == AuthTokens \ UserIds

\* C18: a connection attempt with a bad token leaves the connection closed
\* and in no channel, only connections of active accounts are in a channel or
\* have an event handled, a request with a bad token is answered 401/403,
\* starts no handler and changes no order, partner or position state, and
\* every handler that is started belongs to an active account.
C18_UnauthenticatedRejected ==
  [][/\ \A cid \in ConnIds :
          /\ rooms'[cid] # {}
               => conns'[cid].state = "active" /\ conns'[cid].user \in UserIds
          /\ \A token \in BadTokens :
               Connect(cid, token)
                 => conns'[cid].state = "closed" /\ rooms'[cid] = {}
     /\ \A k \in sock' \ sock :
          /\ k.uid \in UserIds
          /\ sock \ sock' = {}
               => conns[k.conn].state = "active" /\ conns[k.conn].user = k.uid
     /\ done'.event # "none"
          => \/ \E k \in sock \ sock' : k.conn = done'.conn /\ k.uid \in UserIds
             \/ /\ conns[done'.conn].state = "active"
                /\ conns[done'.conn].user \in UserIds
     /\ \A h \in http' \ http : h.req.uid \in UserIds
     /\ \A token \in BadTokens :
          (/\ res'.kind # "none"
           /\ \/ \E body \in PlainBodies : CreateOrder(token, body)
              \/ \E o \in {1} :
                   \/ StatusRead(token, o, "delivered")
                   \/ AssignRead(token, o, 21)
                   \/ LocationPost(token, 40, -74, o)
              \/ PartnerStatus(token, FALSE))
            => /\ res'.code \in {401, 403}
               /\ http' = http
               /\ UNCHANGED dbVars]_vars

\* C18 witness: a request has just been rejected as unauthenticated, a
\* connection is closed and in no channel, and no order, partner or position
\* row differs from the initial ones.
C18_Witness ==
  /\ res.kind = "location" /\ res.code = 401
  /\ \E cid \in ConnIds : conns[cid].state = "closed" /\ rooms[cid] = {}
  /\ \A cid \in ConnIds : conns[cid].state # "active"
  /\ position = [p \in PartnerIds |-> NoPosition]
  /\ locationUpdates = <<>>

\* C19: after every step each active connection is a member of exactly two
\* channels, the role channel of its account's role and the identity channel
\* of its account id, and a step changes the memberships of a connection only
\* when it admits or closes that connection.
C19_ExactlyTwoChannels ==
  [][\A cid \in ConnIds :
       /\ conns'[cid].state = "active"
            => /\ rooms'[cid] =
                    {[kind |-> "role", role |-> users[conns'[cid].user].role,
                      id |-> Null],
                     [kind |-> "user", role |-> "", id |-> conns'[cid].user]}
               /\ Cardinality(rooms'[cid]) = 2
       /\ rooms'[cid] # rooms[cid]
            => conns'[cid].state # conns[cid].state]_vars

\* C19 witness: a position event of an admitted connection has been handled
\* to the end and the connection is still active, in its two channels.
C19_Witness ==
  /\ done.event = "location_update"
  /\ Ack(done.conn, "location_update_success") \in emits
  /\ conns[done.conn].state = "active"
  /\ Cardinality(rooms[done.conn]) = 2

\* The messages `msgs` that reach connection cid: those sent to a room it is
\* in, and those sent to the connection itself while its transport is open.
DeliveredTo(cid, cs, rs, msgs) ==
  {e \in msgs : \/ e.to \in rs[cid]
                \/ e.to = Self(cid) /\ cs[cid].state = "active"}

\* C20: after every step a closed connection is in no channel and none of
\* the messages of the step reaches it; a closed connection stays closed; the
\* step that closes a connection changes no order, partner or position row
\* and no handler.
C20_ClosedConnectionGetsNothing ==
  [][\A cid \in ConnIds :
       /\ conns'[cid].state = "closed"
            => /\ rooms'[cid] = {}
               /\ DeliveredTo(cid, conns', rooms', emits') = {}
       /\ conns[cid].state = "closed" => conns'[cid].state = "closed"
       /\ (conns[cid].state = "active" /\ conns'[cid].state = "closed")
            => /\ UNCHANGED dbVars
               /\ http' = http /\ sock' = sock]_vars

\* C20 witness: a handler that was in flight when its connection closed has
\* finished and acknowledged to the closed connection.
C20_Witness ==
  /\ done.event = "location_update"
  /\ conns[done.conn].state = "closed"
  /\ Ack(done.conn, "location_update_success") \in emits
  /\ locationUpdates # <<>>

\* C21: the messages of a step are those a socket handler emits in that step
\* (nothing keeps a message to send it later or again), each goes to the
\* connections in its room at that moment, and the step that admits a
\* connection delivers nothing to it.
C21_NoReplay ==
  [][/\ emits' # {} => sock' # sock
     /\ \A e \in PositionBroadcasts(emits') :
          \E k \in sock \ sock' :
            /\ k.event = "location_update" /\ k.pc \in {"order", "vendor"}
            /\ e.orderId = k.orderId
     /\ \A cid \in ConnIds :
          (conns[cid].state = "none" /\ conns'[cid].state = "active")
            => DeliveredTo(cid, conns', rooms', emits') = {}]_vars

\* C21 witness: a position broadcast has just been published to the identity
\* channel of the customer while no connection is in that channel, and a
\* connection of another account is active.
C21_Witness ==
  /\ \E e \in PositionBroadcasts(emits) : e.to = UserRoom(5)
  /\ \A cid \in ConnIds : UserRoom(5) \notin rooms[cid]
  /\ \E cid \in ConnIds : conns[cid].state = "active"

\* The sample row a submission of (latitude, longitude) tagged orderId by
\* partner p leaves when it is stored at time t.
SampleRow(p, latitude, longitude, orderId, t) ==
  [deliveryPartnerId |-> p, orderId |-> orderId, latitude |-> latitude,
   longitude |-> longitude, timestamp |-> t]

\* C22: a position submission is accepted (200, or location_update_success)
\* only after its handler has overwritten its partner's projection with the
\* submitted coordinates and then appended exactly one sample with them; the
\* sample list changes by one appended row at a time, so equal coordinates
\* are stored again and n accepted submissions leave n samples.
C22_AcceptedSubmissionAppendsOne ==
  [][/\ \A h \in http' \ http :
          (h.req.kind = "location" /\ h.pc = "insert")
            => position'[h.req.partnerId] =
                 [latitude |-> h.req.latitude, longitude |-> h.req.longitude,
                  at |-> now]
     /\ (res'.kind = "location" /\ res'.code = 200)
          => \E h \in http \ http' :
               /\ h.req.kind = "location" /\ h.pc = "insert"
               /\ locationUpdates' =
                    Append(locationUpdates,
                           SampleRow(h.req.partnerId, h.req.latitude,
                                     h.req.longitude, h.req.orderId, now))
     /\ \A k \in sock' \ sock :
          /\ (k.event = "location_update" /\ k.pc = "insert")
               => position'[k.partnerId] =
                    [latitude |-> k.latitude, longitude |-> k.longitude,
                     at |-> now]
          /\ (k.event = "location_update" /\ k.pc = "order")
               => locationUpdates' =
                    Append(locationUpdates,
                           SampleRow(k.partnerId, k.latitude, k.longitude,
                                     k.orderId, now))
     /\ \A k \in sock \ sock' :
          (k.event = "location_update"
           /\ Ack(k.conn, "location_update_success") \in emits')
            => \/ k.pc \in {"order", "vendor"}
               \/ /\ k.pc = "insert"
                  /\ locationUpdates' =
                       Append(locationUpdates,
                              SampleRow(k.partnerId, k.latitude, k.longitude,
                                        k.orderId, now))
     /\ locationUpdates' # locationUpdates
          => /\ Len(locationUpdates') = Len(locationUpdates) + 1
             /\ \A i \in DOMAIN locationUpdates :
                  locationUpdates'[i] = locationUpdates[i]]_vars

\* C22 witness: partner 21 has two samples with the same coordinates, the
\* second submission has just been accepted, and the projection holds those
\* coordinates.
C22_Witness ==
  /\ res.kind = "location" /\ res.code = 200
  /\ Len(locationUpdates) = 2
  /\ \A i \in DOMAIN locationUpdates :
       /\ locationUpdates[i].deliveryPartnerId = 21
       /\ locationUpdates[i].latitude = 40
       /\ locationUpdates[i].longitude = -74
  /\ position[21].latitude = 40 /\ position[21].longitude = -74

\* The id of the sample written last for partner p (ids are serial).
LastWritten(p) ==
  CHOOSE i \in PartnerSamples(p) : \A j \in PartnerSamples(p) : j <= i

\* C23: latest(p) is absent exactly when partner p has no sample, and
\* otherwise it is the sample written last for p, and no other row.
C23_LatestIsLastWritten ==
  \A p \in PartnerIds :
    getLatestLocationForPartner(p) =
      IF PartnerSamples(p) = {} THEN {} ELSE {LastWritten(p)}

\* The order id filters of a history call: none, and the numbers 0, 1 and one
\* that names no order.
HistoryFilters == {Undefined, 0, 1, NoSuchId}

\* C24: for every partner and every filter, each result of history holds
\* exactly the partner's samples whose order id equals the filter (all of the
\* partner's samples when there is no filter), each once, in strictly
\* descending order of timestamp.
C24_HistoryFilteredAndDescending ==
  \A p \in PartnerIds, f \in HistoryFilters :
    \A q \in getLocationHistory(p, f) :
      /\ {q[a] : a \in DOMAIN q} =
           {i \in DOMAIN locationUpdates :
              /\ locationUpdates[i].deliveryPartnerId = p
              /\ f # Undefined
                   => /\ locationUpdates[i].orderId # Null
                      /\ locationUpdates[i].orderId = f}
      /\ \A a, b \in DOMAIN q :
           a < b => locationUpdates[q[a]].timestamp > locationUpdates[q[b]].timestamp

\* C25: every stored sample, and every projection that has been written, has
\* latitude in [-90, 90] and longitude in [-180, 180].
C25_CoordinatesInRange ==
  /\ \A i \in DOMAIN locationUpdates :
       /\ locationUpdates[i].latitude >= -90 /\ locationUpdates[i].latitude <= 90
       /\ locationUpdates[i].longitude >= -180
       /\ locationUpdates[i].longitude <= 180
  /\ \A p \in PartnerIds :
       position[p] # NoPosition
         => /\ position[p].latitude >= -90 /\ position[p].latitude <= 90
            /\ position[p].longitude >= -180 /\ position[p].longitude <= 180

\* C26: a partner's online flag changes only in a step that is the
\* online-status update of the account owning that partner profile, answered
\* 200, and that step changes no other partner's flag; assign, status-update
\* and position operations, and the updates of other accounts, leave it alone.
C26_OnlineFlagOnlyByOwner ==
  [][\A p \in PartnerIds :
       isOnline'[p] # isOnline[p]
         => /\ res'.kind = "online" /\ res'.code = 200
            /\ PartnerStatus(deliveryPartners[p].userId, isOnline'[p])
            /\ \A q \in PartnerIds \ {p} : isOnline'[q] = isOnline[q]
            /\ \A uid \in UserIds :
                 getDeliveryPartnerByUserId(uid) # p
                   => \A flag \in BOOLEAN : ~PartnerStatus(uid, flag)]_vars

\* Partner 21 has gone offline and partner 22 online, each by its own update.
C26_Witness ==
  /\ res.kind = "online" /\ res.code = 200
  /\ ~isOnline[21] /\ isOnline[22]

\* A position handler of the account owning partner p, suspended at `pc`,
\* takes its next step.
OwnSubmissionResumes(p, pc) ==
  \/ \E h \in http \ http' :
       /\ h.req.kind = "location" /\ h.pc = pc
       /\ h.req.partnerId = p /\ h.req.uid = deliveryPartners[p].userId
  \/ \E k \in sock \ sock' :
       /\ k.event = "location_update" /\ k.pc = pc
       /\ k.partnerId = p /\ k.uid = deliveryPartners[p].userId

\* C27: a partner's projection changes only in the projection write of a
\* position submission made by the account owning that profile, and the sample
\* list changes only by that submission's insert appending one row of that
\* partner; such a step changes no other partner's projection, no stored
\* sample and no order row.
C27_PositionOnlyByOwner ==
  [][/\ \A p \in PartnerIds :
          position'[p] # position[p]
            => /\ OwnSubmissionResumes(p, "projection")
               /\ \A q \in PartnerIds \ {p} : position'[q] = position[q]
               /\ locationUpdates' = locationUpdates
               /\ orders' = orders
     /\ locationUpdates' # locationUpdates
          => /\ Len(locationUpdates') = Len(locationUpdates) + 1
             /\ SubSeq(locationUpdates', 1, Len(locationUpdates)) = locationUpdates
             /\ OwnSubmissionResumes(
                  locationUpdates'[Len(locationUpdates')].deliveryPartnerId,
                  "insert")
             /\ position' = position
             /\ orders' = orders]_vars

\* Both partners have submitted a position, one over each surface or both by
\* request, and each has its own projection and its own sample.
C27_Witness ==
  /\ position[21] # NoPosition /\ position[22] # NoPosition
  /\ position[21].latitude # position[22].latitude
  /\ Len(locationUpdates) = 2
  /\ locationUpdates[1].deliveryPartnerId # locationUpdates[2].deliveryPartnerId

\* C28: for every account with an admitted connection and every stored order,
\* the permission decision the socket handler of order_status_update makes is
\* the decision the status request of the same account makes.
C28_SurfacesDecideAlike ==
  \A cid \in ConnIds :
    conns[cid].state = "active"
      => \A o \in DOMAIN orders :
           canUpdate(SocketUser(conns[cid].user), orders[o])
             <=> canUpdate(AuthContext(conns[cid].user), orders[o])

\* C29: the write of a successful assign of order O to partner P takes O, in
\* one step, to status assigned, partner P and estimated delivery time = the
\* time of the write + 30 minutes, leaving O's other fields, every other
\* order and every partner row as they were; and no step changes the partner
\* id or the estimated time of a stored order in any other way.
C29_AssignWritesAllAtOnce ==
  [][/\ \A h \in http \ http' :
          (h.req.kind = "assign" /\ h.pc = "write")
            => /\ res'.kind = "assign" /\ res'.code = 200
               /\ orders' =
                    [orders EXCEPT ![h.req.orderId] =
                       [@ EXCEPT !.status = "assigned",
                                 !.deliveryPartnerId = h.req.partnerId,
                                 !.estimatedDeliveryTime =
                                    now + EstimateMinutes * MsPerMinute]]
               /\ isOnline' = isOnline /\ position' = position
     /\ \A o \in DOMAIN orders :
          (\/ orders'[o].deliveryPartnerId # orders[o].deliveryPartnerId
           \/ orders'[o].estimatedDeliveryTime # orders[o].estimatedDeliveryTime)
            => /\ \E h \in http \ http' :
                    /\ h.req.kind = "assign" /\ h.pc = "write"
                    /\ h.req.orderId = o
                    /\ orders'[o].deliveryPartnerId = h.req.partnerId
               /\ orders'[o].status = "assigned"
               /\ orders'[o].estimatedDeliveryTime =
                    now + EstimateMinutes * MsPerMinute]_vars

\* Of two stored orders the second has just been assigned and carries all
\* three fields; the first is as it was created.
C29_Witness ==
  /\ Len(orders) = 2
  /\ res.kind = "assign" /\ res.code = 200 /\ res.orderId = 2
  /\ orders[2].status = "assigned" /\ orders[2].deliveryPartnerId = 21
  /\ orders[2].estimatedDeliveryTime = now + EstimateMinutes * MsPerMinute
  /\ orders[1].status = "pending" /\ orders[1].deliveryPartnerId = Null
  /\ orders[1].estimatedDeliveryTime = Null

\* C30: no partial position is ever committed: whenever a partner's
\* projection holds coordinates, either a stored sample of that partner holds
\* the same coordinates or the submission that wrote them is still in flight,
\* about to insert its sample.
C30_NoPartialPosition ==
  \A p \in PartnerIds :
    position[p] # NoPosition
      => \/ \E i \in PartnerSamples(p) :
              /\ locationUpdates[i].latitude = position[p].latitude
              /\ locationUpdates[i].longitude = position[p].longitude
         \/ \E h \in http :
              /\ h.req.kind = "location" /\ h.pc = "insert"
              /\ h.req.partnerId = p
         \/ \E k \in sock :
              /\ k.event = "location_update" /\ k.pc = "insert"
              /\ k.partnerId = p

\* C31: no two handlers of events from the same connection are ever suspended
\* at the same time, that is, the handler of an event has returned before the
\* handler of the next event on that connection starts.
C31_OneEventAtATimePerConnection ==
  \A k1, k2 \in sock : k1.conn = k2.conn => k1 = k2

\* C32: every open admitted connection keeps being served whatever has become
\* of its account or token since admission (its status and position listeners
\* stay enabled), and each handler that starts runs for the account bound to
\* the connection at admission, with that account's role and profile.
C32_AdmissionContextReused ==
  /\ [](\A cid \in ConnIds :
          conns[cid].state = "active"
            => /\ ENABLED SockOrderStatusUpdate(cid, 1, "picked_up")
               /\ ENABLED SockLocationUpdate(cid, 40, -74, Null))
  /\ [][\A k \in sock' \ sock :
          k.pc = "projection"
            => /\ conns[k.conn].state = "active"
               /\ k.uid = conns[k.conn].user
               /\ users[k.uid].role = "delivery"
               /\ k.partnerId = getDeliveryPartnerByUserId(k.uid)]_vars

\* A status event sent on the connection admitted with the short-lived
\* token, after the token expired and the account was deactivated, has just
\* been handled.
C32_Witness ==
  /\ ~isActive[4] /\ now >= TokenExpiry
  /\ done.event = "order_status_update"
  /\ conns[done.conn].state = "active" /\ conns[done.conn].user = 4

\* C33: a location_update event sent on a connection whose account is a
\* vendor or a customer is a step that stores no sample, changes no
\* projection, starts no handler, publishes nothing and acknowledges nothing;
\* and no position handler ever runs for such an account.
C33_NonPartnerPositionIgnored ==
  [][/\ \A cid \in ConnIds :
          (/\ conns[cid].state = "active"
           /\ users[conns[cid].user].role \in {"vendor", "customer"})
            => \A lat \in Latitudes, lon \in Longitudes,
                  o \in OrderIdInputs \cup {Null} :
                 SockLocationUpdate(cid, lat, lon, o)
                   => /\ locationUpdates' = locationUpdates
                      /\ position' = position
                      /\ sock' = sock
                      /\ emits' = {}
                      /\ done' = NoDone
     /\ \A k \in sock' :
          k.event = "location_update" => users[k.uid].role = "delivery"]_vars

\* A vendor and a customer are connected, order 1 is stored, and a position
\* event tagged with it can be sent on the vendor's connection; nothing has
\* been stored or published.
C33_Witness ==
  /\ \E c1, c2 \in ConnIds :
       /\ conns[c1].state = "active" /\ users[conns[c1].user].role = "vendor"
       /\ conns[c2].state = "active" /\ users[conns[c2].user].role = "customer"
       /\ ENABLED SockLocationUpdate(c1, 40, -74, 1)
  /\ locationUpdates = <<>> /\ emits = {} /\ done = NoDone

\* C34: in every step the table of samples either stays as it is or grows by
\* exactly one row at its end, every row already stored keeping its partner
\* id, order id, coordinates and timestamp.
C34_SamplesImmutable ==
  [][\/ locationUpdates' = locationUpdates
     \/ /\ Len(locationUpdates') = Len(locationUpdates) + 1
        /\ \A i \in DOMAIN locationUpdates :
             locationUpdates'[i] = locationUpdates[i]]_vars

\* A partner has stored a second sample with other coordinates, and the
\* first is still there.
C34_Witness ==
  /\ Len(locationUpdates) = 2
  /\ locationUpdates[1].deliveryPartnerId = locationUpdates[2].deliveryPartnerId
  /\ locationUpdates[1].latitude # locationUpdates[2].latitude
  /\ locationUpdates[1].timestamp < locationUpdates[2].timestamp

\* C35: every stored order in status assigned, picked_up, in_transit or
\* delivered has a partner id, and every stored order in status pending has
\* none.
C35_PartnerIdMatchesStatus ==
  \A o \in DOMAIN orders :
    /\ orders[o].status \in {"assigned", "picked_up", "in_transit", "delivered"}
         => orders[o].deliveryPartnerId # Null
    /\ orders[o].status = "pending" => orders[o].deliveryPartnerId = Null

\* C36: every delivery_location_update a step publishes for an order O comes
\* from a position handler, tagged with O, of the partner that is O's
\* assigned partner at that moment.
C36_PositionPublishedOnlyForAssignedPartner ==
  [][\A e \in PositionBroadcasts(emits') :
       \E k \in sock :
         /\ k.event = "location_update" /\ k.orderId = e.orderId
         /\ OrderExists(e.orderId)
         /\ orders[e.orderId].deliveryPartnerId = k.partnerId]_vars

\* A position submission of partner p is in progress.
SubmissionInProgress(p) ==
  \/ \E h \in http : h.req.kind = "location" /\ h.req.partnerId = p
  \/ \E k \in sock : k.event = "location_update" /\ k.partnerId = p

\* C37: whenever no position submission of partner P is in progress, P's
\* projection holds the coordinates of a sample that latest(P) can return
\* (and is unwritten exactly when P has no sample).
C37_ProjectionEqualsLatest ==
  \A p \in PartnerIds :
    ~SubmissionInProgress(p)
      => IF PartnerSamples(p) = {}
           THEN position[p] = NoPosition
           ELSE /\ position[p] # NoPosition
                /\ \E i \in getLatestLocationForPartner(p) :
                     /\ locationUpdates[i].latitude = position[p].latitude
                     /\ locationUpdates[i].longitude = position[p].longitude

\* C38: a create-order call by a vendor or customer that reads a clock
\* millisecond an earlier create has read is answered with success and stores
\* one more order, whose order number differs from every stored one.
C38_SameMillisecondCreatesSucceed ==
  [][(/\ res'.kind = "create" /\ res'.code \notin {401, 403}
      /\ \E i \in DOMAIN orders : orders[i].orderNumber = now)
       => /\ res'.code = 200
          /\ Len(orders') = Len(orders) + 1
          /\ \A i \in DOMAIN orders :
               orders'[Len(orders')].orderNumber # orders[i].orderNumber]_vars
====
